---- MODULE Spec2Model ----
(***************************************************************************)
(* A state-machine model of libraries/libldap/sasl.c: the SASL bind        *)
(* negotiation (ldap_pvt_sasl_bind), the provider-status mapping            *)
(* (sasl_err2ldap) and the Sockbuf SASL layer (sb_sasl_setup/remove/read/   *)
(* write, sb_sasl_pkt_length, sb_sasl_drop_packet).                         *)
(***************************************************************************)
EXTENDS Integers, Sequences, FiniteSets, TLC

(***************************************************************************)
(* Program constants.  The LDAP_ and SASL_ values are those of <ldap.h>    *)
(* and Cyrus <sasl.h>, which sasl.c uses by name.                           *)
(***************************************************************************)
LDAP_VERSION3 == 3
LDAP_SUCCESS == 0
LDAP_OPERATIONS_ERROR == 1
LDAP_SASL_BIND_IN_PROGRESS == 14
LDAP_INVALID_CREDENTIALS == 49
LDAP_UNAVAILABLE == 52
LDAP_SERVER_DOWN == 81
LDAP_LOCAL_ERROR == 82
LDAP_AUTH_UNKNOWN == 86
LDAP_PARAM_ERROR == 89
LDAP_NO_MEMORY == 90
LDAP_NOT_SUPPORTED == 92
LDAP_MORE_RESULTS_TO_RETURN == 95
LDAP_API_ERROR_LO == 81
LDAP_API_ERROR_HI == 97

SASL_CONTINUE == 1
SASL_OK == 0
SASL_FAIL == -1
SASL_NOMEM == -2
SASL_NOMECH == -4
SASL_BADAUTH == -13
SASL_NOAUTHZ == -14
SASL_TOOWEAK == -15
SASL_ENCRYPT == -16

MAX_BUFF_SIZE == 65536
MIN_BUFF_SIZE == 4096
PKT_SENTINEL == 16
PKT_HEADER == 4
EIO == 5
ENOMEM == 12

(***************************************************************************)
(* Bounds of the model.                                                    *)
(***************************************************************************)
MaxBinds == 3          \* ldap_pvt_sasl_bind calls in one behaviour
MaxRounds == 3         \* bind requests sent by one ldap_pvt_sasl_bind call
MaxStatus == 100       \* sasl_err2ldap is applied to -MaxStatus..MaxStatus

VARIABLES
  \* ---- LDAP handle (struct ldap) ----
  ld_version,          \* ld->ld_version
  connected,           \* the Sockbuf has a valid descriptor
  ld_sasl_context,     \* ld->ld_sasl_context: a context id, 0 = NULL
  ld_errno,            \* ld->ld_errno
  \* ---- provider (Cyrus SASL) heap ----
  ctxState,            \* ctxState[c] = number of sasl_dispose calls on context c
  ctxSSF,              \* ctxSSF[c] = SASL_SSF property of context c
  blobFrees,           \* blobFrees[b] = number of times blob b was freed
  \* ---- ldap_pvt_sasl_bind activation ----
  bpc,                 \* "idle" | "await" (inside ldap_sasl_bind_s)
  rc, saslrc,          \* locals rc, saslrc
  ccred, scred,        \* locals ccred.bv_val, scred: a blob id, 0 = NULL
  nProv, nReq,         \* provider start/step calls, ldap_sasl_bind_s calls
  nInProg,             \* in-progress responses ldap_sasl_bind_s returned
  nBinds,              \* ldap_pvt_sasl_bind calls so far
  bind_ret,            \* value returned by the last ldap_pvt_sasl_bind
  bind_path,           \* which exit the last ldap_pvt_sasl_bind took
  \* ---- Sockbuf layer stack / struct sb_sasl_data ----
  installed,           \* ldap_pvt_sockbuf_io_sasl is in the Sockbuf's stack
  p_ctx,               \* p->sasl_context
  nSetup, nRemove,     \* sb_sasl_setup / sb_sasl_remove calls
  sec_buf_in, buf_in, buf_out,
  \* ---- sb_sasl_read activation and the inbound transport ----
  rpc,                 \* "idle" | "hdr" | "body"
  rlen, bufptr,        \* locals len, bufptr
  rret, rerrno,        \* last return value of sb_sasl_read, errno it set
  wire, pos,           \* inbound byte stream and the transport's position
  plain,               \* the payloads the peer encoded into wire, concatenated
  copied,              \* every byte copied into the caller's destination
  delivered,           \* the bytes counted by the return values
  faults,              \* the transport has returned <= 0 to sb_sasl_read
  intr,                \* the current sb_sasl_read was interrupted (EINTR)
  tret,                \* last result <= 0 of LBER_SBIOD_READ_NEXT (1: none yet)
  lastDecode,          \* outcome of the last sasl_decode, n = sasl_decode calls so far
  \* ---- sb_sasl_write and the outbound transport ----
  wret,                \* last return value of sb_sasl_write
  wpath,               \* which exit the last sb_sasl_write took
  nWrites,             \* sb_sasl_write calls so far
  wireOut,             \* bytes the transport accepted, in order
  encoded,             \* packets produced by sasl_encode, in order
  \* ---- sasl_err2ldap ----
  saslerr, ldaprc,     \* argument and result of sasl_err2ldap
  epc,                 \* "call" | "ret"
  \* ---- sb_sasl_drop_packet on its own ----
  dpc                  \* "none" | "call" | "ret"

ldVars      == <<ld_version, connected, ld_sasl_context, ld_errno>>
heapVars    == <<ctxState, ctxSSF, blobFrees>>
bindVars    == <<bpc, rc, saslrc, ccred, scred, nProv, nReq, nInProg, nBinds, bind_ret, bind_path>>
layerVars   == <<installed, p_ctx, nSetup, nRemove>>
bufVars     == <<sec_buf_in, buf_in, buf_out>>
readVars    == <<rpc, rlen, bufptr, rret, rerrno, wire, pos, plain, copied, delivered, faults, intr, tret, lastDecode>>
writeVars   == <<wret, wpath, nWrites, wireOut, encoded>>
errVars     == <<saslerr, ldaprc, epc>>
vars == <<ldVars, heapVars, bindVars, layerVars, bufVars, readVars, writeVars, errVars, dpc>>

(***************************************************************************)
(* sasl_err2ldap (sasl.c 669-707).                                         *)
(***************************************************************************)
LDAP_API_ERROR(n) == LDAP_API_ERROR_LO <= n /\ n <= LDAP_API_ERROR_HI

sasl_err2ldap_passthrough(e) ==
  CASE e = SASL_CONTINUE -> LDAP_MORE_RESULTS_TO_RETURN
    [] e = SASL_OK       -> LDAP_SUCCESS
    [] e = SASL_FAIL     -> LDAP_LOCAL_ERROR
    [] e = SASL_NOMEM    -> LDAP_NO_MEMORY
    [] e = SASL_NOMECH   -> LDAP_AUTH_UNKNOWN
    [] e = SASL_BADAUTH  -> LDAP_AUTH_UNKNOWN
    [] e = SASL_NOAUTHZ  -> LDAP_PARAM_ERROR
    [] e = SASL_TOOWEAK  -> LDAP_AUTH_UNKNOWN
    [] e = SASL_ENCRYPT  -> LDAP_AUTH_UNKNOWN
    [] OTHER             -> e

sasl_err2ldap(e) ==
  CASE e = SASL_CONTINUE -> LDAP_MORE_RESULTS_TO_RETURN
    [] e = SASL_OK       -> LDAP_SUCCESS
    [] e = SASL_FAIL     -> LDAP_LOCAL_ERROR
    [] e = SASL_NOMEM    -> LDAP_NO_MEMORY
    [] e = SASL_NOMECH   -> LDAP_AUTH_UNKNOWN
    [] e = SASL_BADAUTH  -> LDAP_AUTH_UNKNOWN
    [] e = SASL_NOAUTHZ  -> LDAP_PARAM_ERROR
    [] e = SASL_TOOWEAK  -> LDAP_AUTH_UNKNOWN
    [] e = SASL_ENCRYPT  -> LDAP_AUTH_UNKNOWN
    [] OTHER             -> LDAP_LOCAL_ERROR

(***************************************************************************)
(* Sockbuf_Buf helpers of liblber (sockbuf.c), used by the SASL layer.      *)
(* A buffer is [base, ptr, end, size]: base is the backing storage as a     *)
(* sequence (byte i of the C buffer is base[i+1]).                          *)
(***************************************************************************)

\* ber_pvt_sb_buf_init / the state ber_pvt_sb_buf_destroy leaves behind
BufInit == [base |-> <<>>, ptr |-> 0, end |-> 0, size |-> 0]

ber_pvt_sb_buf_destroy(b) == BufInit

(***************************************************************************)
(* The part of the program state the bind and the layer stack act on, as   *)
(* one record, so that each piece of ldap_pvt_sasl_bind is a function      *)
(* from state to state.                                                    *)
(***************************************************************************)
BS ==
  [ ld_version |-> ld_version, connected |-> connected,
    ld_sasl_context |-> ld_sasl_context, ld_errno |-> ld_errno,
    ctxState |-> ctxState, ctxSSF |-> ctxSSF, blobFrees |-> blobFrees,
    bpc |-> bpc, rc |-> rc, saslrc |-> saslrc, ccred |-> ccred, scred |-> scred,
    nProv |-> nProv, nReq |-> nReq, nInProg |-> nInProg, nBinds |-> nBinds,
    bind_ret |-> bind_ret, bind_path |-> bind_path,
    installed |-> installed, p_ctx |-> p_ctx, nSetup |-> nSetup, nRemove |-> nRemove,
    sec_buf_in |-> sec_buf_in, buf_in |-> buf_in, buf_out |-> buf_out ]

SetBS(s) ==
  /\ ld_version' = s.ld_version /\ connected' = s.connected
  /\ ld_sasl_context' = s.ld_sasl_context /\ ld_errno' = s.ld_errno
  /\ ctxState' = s.ctxState /\ ctxSSF' = s.ctxSSF /\ blobFrees' = s.blobFrees
  /\ bpc' = s.bpc /\ rc' = s.rc /\ saslrc' = s.saslrc
  /\ ccred' = s.ccred /\ scred' = s.scred
  /\ nProv' = s.nProv /\ nReq' = s.nReq /\ nInProg' = s.nInProg /\ nBinds' = s.nBinds
  /\ bind_ret' = s.bind_ret /\ bind_path' = s.bind_path
  /\ installed' = s.installed /\ p_ctx' = s.p_ctx
  /\ nSetup' = s.nSetup /\ nRemove' = s.nRemove
  /\ sec_buf_in' = s.sec_buf_in /\ buf_in' = s.buf_in /\ buf_out' = s.buf_out

(***************************************************************************)
(* Provider and allocator primitives as the bind uses them.                *)
(***************************************************************************)
\* a variant that clears the handle and leaves the context alive
sasl_dispose_forgetting(s) == [s EXCEPT !.ld_sasl_context = 0]

\* sasl_dispose( &ld->ld_sasl_context ): disposes the context the handle
\* points to, if any, and clears the handle.
sasl_dispose(s) ==
  IF s.ld_sasl_context = 0 THEN s
  ELSE [s EXCEPT !.ctxState[s.ld_sasl_context] = @ + 1, !.ld_sasl_context = 0]

\* LDAP_FREE / ber_bvfree of blob b (a no-op on NULL)
FreeBlob(s, b) ==
  IF b = 0 THEN s ELSE [s EXCEPT !.blobFrees[b] = @ + 1]

\* a blob handed to the caller by the provider or by the response parser
NewBlob(s) == [s EXCEPT !.blobFrees = Append(@, 0)]

SaslFailed(r) == r # SASL_OK /\ r # SASL_CONTINUE

(***************************************************************************)
(* The security layer of the provider (sasl_encode / sasl_decode), by its  *)
(* interface: a packet is a 4-byte big-endian length of what follows, the  *)
(* enciphered payload and one integrity byte.  Decoding inverts encoding   *)
(* and fails on anything encode could not have produced.                   *)
(***************************************************************************)
CipherKey == 13

RECURSIVE SumSeq(_)
SumSeq(q) == IF q = <<>> THEN 0 ELSE Head(q) + SumSeq(Tail(q))

\* the big-endian 32-bit value of q[1..4], as its two 16-bit halves
Hi16(q) == q[1] * 256 + q[2]
Lo16(q) == q[3] * 256 + q[4]
BE32(q) == Hi16(q) * 65536 + Lo16(q)
BE32Is(q, n) == Hi16(q) = n \div 65536 /\ Lo16(q) = n % 65536
BE32Above(q, n) == Hi16(q) > n \div 65536 \/ (Hi16(q) = n \div 65536 /\ Lo16(q) > n % 65536)

Header(n) == << (n \div 16777216) % 256, (n \div 65536) % 256, (n \div 256) % 256, n % 256 >>

Encipher(q) == [i \in 1..Len(q) |-> (q[i] + CipherKey) % 256]
Decipher(q) == [i \in 1..Len(q) |-> (q[i] + 256 - CipherKey) % 256]

Mac(q) == SumSeq(q) % 256

\* sasl_encode( ctx, buf, len, &out, &outlen ) on success
sasl_encode(payload) == Header(Len(payload) + 1) \o Encipher(payload) \o << Mac(payload) >>

\* sasl_decode( ctx, in, inlen, &out, &outlen ): [ok, out]
sasl_decode(pkt) ==
  IF Len(pkt) < PKT_HEADER + 1 \/ ~BE32Is(pkt, Len(pkt) - PKT_HEADER)
  THEN [ok |-> FALSE, out |-> <<>>]
  ELSE LET text == Decipher(SubSeq(pkt, PKT_HEADER + 1, Len(pkt) - 1))
       IN IF Mac(text) = pkt[Len(pkt)]
          THEN [ok |-> TRUE, out |-> text]
          ELSE [ok |-> FALSE, out |-> <<>>]

(***************************************************************************)
(* Inputs of the model: application payloads and inbound byte streams.     *)
(***************************************************************************)
MaxReadLen == 2        \* largest len a caller passes to sb_sasl_read
MaxPackets == 2        \* packets sasl_encode produces in one behaviour
MaxWrites == 4         \* sb_sasl_write calls in one behaviour

Payloads == { <<65>>, <<65, 66>> }

\* a header declaring 10,000,000 bytes, 16 bytes of it, then a valid packet
OverWire == <<0, 152, 150, 128>> \o [i \in 1..PKT_SENTINEL |-> 7] \o sasl_encode(<<65>>)
\* a header declaring one byte more than the ceiling, and 16 bytes of it
Over2Wire == <<0, 1, 0, 1>> \o [i \in 1..PKT_SENTINEL |-> 7]
OverWires == { OverWire, Over2Wire }
\* a header declaring exactly the ceiling, and the first bytes of its body
CeilWire == <<0, 1, 0, 0, 7, 7>>

ValidWires == { sasl_encode(a) \o sasl_encode(b) : a, b \in Payloads }

\* bytes of the staging buffer the model keeps track of: no behaviour
\* stages more than the longest stream
MemTrack == Len(OverWire)

\* storage that was allocated and never written holds Uninit; a read of such
\* a byte yields any of JunkBytes, and the byte keeps that value
Uninit == 256
JunkBytes == {0, 255}
FreshMem == [i \in 1..MemTrack |-> Uninit]

(***************************************************************************)
(* liblber buffer operations the layer calls (sockbuf.c).                   *)
(***************************************************************************)
RECURSIVE GrowTo(_, _)
GrowTo(pw, minsize) == IF pw < minsize THEN GrowTo(pw * 2, minsize) ELSE pw

\* ber_pvt_sb_grow_buffer( buf, minsize ) on success: capacity at least minsize
ber_pvt_sb_grow_buffer(b, minsize) ==
  LET pw == GrowTo(MIN_BUFF_SIZE, minsize)
  IN IF b.size < pw THEN [b EXCEPT !.size = pw] ELSE b

\* ber_pvt_sb_copy_out( sbb, buf, len ): [n, out, buf]
ber_pvt_sb_copy_out(b, len) ==
  LET avail == b.end - b.ptr
      max   == IF avail < len THEN avail ELSE len
  IN [ n   |-> max,
       out |-> SubSeq(b.base, b.ptr + 1, b.ptr + max),
       buf |-> [b EXCEPT !.ptr = @ + max] ]

(***************************************************************************)
(* sb_sasl_pkt_length (sasl.c 465-485)                                     *)
(***************************************************************************)
\* tmp = *((long *)buf); size = ntohl( tmp ): the 32-bit big-endian value of
\* buf[0..3], which is what the two lines yield where long has 32 bits or the
\* host is little-endian
sb_sasl_pkt_length(buf) ==
  (IF BE32Above(buf, MAX_BUFF_SIZE) THEN PKT_SENTINEL ELSE BE32(buf)) + PKT_HEADER

(***************************************************************************)
(* sb_sasl_drop_packet (sasl.c 487-506)                                    *)
(***************************************************************************)
\* a variant without the memmove of lines 494-496
sb_sasl_drop_packet_noshift(b) ==
  LET len == b.ptr - b.end
  IN [b EXCEPT !.end = IF len >= 4 THEN sb_sasl_pkt_length(b.base) ELSE 0,
               !.ptr = len]

sb_sasl_drop_packet(b) ==
  LET len   == b.ptr - b.end
      moved == IF len > 0
               THEN SubSeq(b.base, b.end + 1, b.end + len)
                    \o SubSeq(b.base, len + 1, Len(b.base))
               ELSE b.base
  IN [b EXCEPT !.base = moved,
               !.end  = IF len >= 4 THEN sb_sasl_pkt_length(moved) ELSE 0,
               !.ptr  = len]

(***************************************************************************)
(* sb_sasl_setup (sasl.c 425-447), sb_sasl_remove (449-463) and            *)
(* ldap_pvt_sasl_install (657-667).  allocOk: both allocations of setup    *)
(* succeed.                                                                *)
(***************************************************************************)
sb_sasl_setup(s, arg, allocOk) ==
  IF ~allocOk THEN s
  ELSE [s EXCEPT !.installed  = TRUE,
                 !.p_ctx      = arg,
                 !.nSetup     = @ + 1,
                 !.sec_buf_in = ber_pvt_sb_grow_buffer([BufInit EXCEPT !.base = FreshMem], MIN_BUFF_SIZE),
                 !.buf_in     = BufInit,
                 !.buf_out    = BufInit]

sb_sasl_remove_disposing(s) ==
  [s EXCEPT !.installed  = FALSE,
            !.p_ctx      = 0,
            !.nRemove    = @ + 1,
            !.ctxState   = IF s.p_ctx = 0 THEN @ ELSE [@ EXCEPT ![s.p_ctx] = @ + 1],
            !.sec_buf_in = ber_pvt_sb_buf_destroy(s.sec_buf_in),
            !.buf_in     = ber_pvt_sb_buf_destroy(s.buf_in),
            !.buf_out    = ber_pvt_sb_buf_destroy(s.buf_out)]

sb_sasl_remove(s) ==
  [s EXCEPT !.installed  = FALSE,
            !.p_ctx      = 0,
            !.nRemove    = @ + 1,
            !.sec_buf_in = ber_pvt_sb_buf_destroy(s.sec_buf_in),
            !.buf_in     = ber_pvt_sb_buf_destroy(s.buf_in),
            !.buf_out    = ber_pvt_sb_buf_destroy(s.buf_out)]

ldap_pvt_sasl_install(s, ctx_arg, allocOk) ==
  IF s.installed THEN s
  ELSE sb_sasl_setup(s, ctx_arg, allocOk)

(***************************************************************************)
(* ldap_pvt_sasl_bind (sasl.c 758-911), in two pieces: from the call to    *)
(* the first ldap_sasl_bind_s, and from the return of an ldap_sasl_bind_s  *)
(* to the next one or to the function's return.                            *)
(***************************************************************************)
SSFValues  == {0, 56}
StepResults  == {SASL_OK, SASL_CONTINUE, SASL_FAIL, SASL_BADAUTH}

BindReturn(s, code, path) ==
  [s EXCEPT !.bpc = "idle", !.bind_ret = code, !.bind_path = path]

\* sasl_client_new( "ldap", host, callbacks, SASL_SECURITY_LAYER, &ld->ld_sasl_context )
sasl_client_new(s, newrc, ssf) ==
  IF SaslFailed(newrc) THEN s
  ELSE [s EXCEPT !.ctxState = Append(@, 0), !.ctxSSF = Append(@, ssf),
                 !.ld_sasl_context = Len(s.ctxState) + 1]

\* sasl_client_start / sasl_client_step: status and, unless it failed and
\* when hasBlob, a fresh outbound blob in ccred.bv_val
ProviderCall(s, status, hasBlob) ==
  LET t == [s EXCEPT !.nProv = @ + 1, !.saslrc = status]
  IN IF SaslFailed(status) \/ ~hasBlob THEN [t EXCEPT !.ccred = 0]
     ELSE [NewBlob(t) EXCEPT !.ccred = Len(t.blobFrees) + 1]

\* the call of ldap_sasl_bind_s at line 870
SendBind(s) == [s EXCEPT !.bpc = "await", !.nReq = @ + 1]

\* a variant of lines 781-870 that makes the version test after the old
\* context was disposed
ldap_pvt_sasl_bind_begin_lateversion(s, in) ==
  LET s0 == [s EXCEPT !.nBinds = @ + 1, !.blobFrees = <<>>, !.ccred = 0, !.scred = 0,
                      !.nProv = 0, !.nReq = 0, !.nInProg = 0, !.rc = 0, !.saslrc = 0]
  IN
  IF ~s0.connected /\ ~in.openOk
  THEN BindReturn([s0 EXCEPT !.ld_errno = LDAP_SERVER_DOWN], LDAP_SERVER_DOWN, "open")
  ELSE IF ~in.hostOk
  THEN BindReturn([s0 EXCEPT !.connected = TRUE, !.ld_errno = LDAP_UNAVAILABLE],
                  LDAP_UNAVAILABLE, "host")
  ELSE
  LET s1 == sasl_dispose([s0 EXCEPT !.connected = TRUE])
      s2 == sasl_client_new(s1, in.newrc, in.ssf)
  IN
  IF s0.ld_version < LDAP_VERSION3
  THEN BindReturn([s1 EXCEPT !.ld_errno = LDAP_NOT_SUPPORTED], LDAP_NOT_SUPPORTED, "version")
  ELSE IF SaslFailed(in.newrc)
  THEN BindReturn(sasl_dispose([s2 EXCEPT !.ld_errno = sasl_err2ldap(in.newrc)]),
                  sasl_err2ldap(in.newrc), "new")
  ELSE IF ~in.peerOk
  THEN BindReturn([s2 EXCEPT !.ld_errno = LDAP_OPERATIONS_ERROR], LDAP_OPERATIONS_ERROR, "peer")
  ELSE IF ~in.sockOk
  THEN BindReturn([s2 EXCEPT !.ld_errno = LDAP_OPERATIONS_ERROR], LDAP_OPERATIONS_ERROR, "sock")
  ELSE
  LET s3 == ProviderCall(s2, in.startrc, in.hasBlob)
  IN
  IF SaslFailed(in.startrc)
  THEN BindReturn(sasl_dispose([s3 EXCEPT !.ld_errno = sasl_err2ldap(in.startrc)]),
                  sasl_err2ldap(in.startrc), "start")
  ELSE SendBind(s3)

\* lines 781-870
ldap_pvt_sasl_bind_begin(s, in) ==
  LET s0 == [s EXCEPT !.nBinds = @ + 1, !.blobFrees = <<>>, !.ccred = 0, !.scred = 0,
                      !.nProv = 0, !.nReq = 0, !.nInProg = 0, !.rc = 0, !.saslrc = 0]
  IN
  IF s0.ld_version < LDAP_VERSION3
  THEN BindReturn([s0 EXCEPT !.ld_errno = LDAP_NOT_SUPPORTED], LDAP_NOT_SUPPORTED, "version")
  ELSE IF ~s0.connected /\ ~in.openOk
  THEN BindReturn([s0 EXCEPT !.ld_errno = LDAP_SERVER_DOWN], LDAP_SERVER_DOWN, "open")
  ELSE IF ~in.hostOk
  THEN BindReturn([s0 EXCEPT !.connected = TRUE, !.ld_errno = LDAP_UNAVAILABLE],
                  LDAP_UNAVAILABLE, "host")
  ELSE
  LET s1 == sasl_dispose([s0 EXCEPT !.connected = TRUE])
      s2 == sasl_client_new(s1, in.newrc, in.ssf)
  IN
  IF SaslFailed(in.newrc)
  THEN BindReturn(sasl_dispose([s2 EXCEPT !.ld_errno = sasl_err2ldap(in.newrc)]),
                  sasl_err2ldap(in.newrc), "new")
  ELSE IF ~in.peerOk
  THEN BindReturn([s2 EXCEPT !.ld_errno = LDAP_OPERATIONS_ERROR], LDAP_OPERATIONS_ERROR, "peer")
  ELSE IF ~in.sockOk
  THEN BindReturn([s2 EXCEPT !.ld_errno = LDAP_OPERATIONS_ERROR], LDAP_OPERATIONS_ERROR, "sock")
  ELSE
  LET s3 == ProviderCall(s2, in.startrc, in.hasBlob)
  IN
  IF SaslFailed(in.startrc)
  THEN BindReturn(sasl_dispose([s3 EXCEPT !.ld_errno = sasl_err2ldap(in.startrc)]),
                  sasl_err2ldap(in.startrc), "start")
  ELSE SendBind(s3)

\* ldap_sasl_bind_s (sasl.c 154-214) as called at line 870, servercredp = &scred:
\* resp is the result code (LDAP_SERVER_DOWN: the request or the wait failed
\* locally), hasScred whether the response carries serverSaslCreds.
ldap_sasl_bind_s(s, resp, hasScred) ==
  LET t == [s EXCEPT !.rc = resp, !.ld_errno = resp, !.scred = 0,
                     !.nInProg = IF resp = LDAP_SASL_BIND_IN_PROGRESS THEN @ + 1 ELSE @]
  IN IF resp = LDAP_SERVER_DOWN \/ ~hasScred THEN t
     ELSE IF resp # LDAP_SUCCESS /\ resp # LDAP_SASL_BIND_IN_PROGRESS
          THEN NewBlob(t)        \* line 195-198: returns with scredp still allocated
          ELSE [NewBlob(t) EXCEPT !.scred = Len(t.blobFrees) + 1]

\* lines 903-910, with a variant that discards the context when no layer is installed
ldap_pvt_sasl_bind_success_discarding(s, getpropOk, allocOk) ==
  LET ssfSet == getpropOk /\ s.ctxSSF[s.ld_sasl_context] # 0
      t == IF ssfSet
           THEN ldap_pvt_sasl_install(s, s.ld_sasl_context, allocOk)
           ELSE sasl_dispose(s)
  IN BindReturn(t, s.rc, "success")

ldap_pvt_sasl_bind_success(s, getpropOk, allocOk) ==
  LET ssfSet == getpropOk /\ s.ctxSSF[s.ld_sasl_context] # 0
      t == IF ssfSet
           THEN ldap_pvt_sasl_install(s, s.ld_sasl_context, allocOk)
           ELSE s
  IN BindReturn(t, s.rc, "success")

\* a variant of lines 870-901 that enters sasl_client_step without freeing
\* the outbound blob it holds
ldap_pvt_sasl_bind_resume_keeping(s, in) ==
  LET s0 == ldap_sasl_bind_s(s, in.resp, in.hasScred)
  IN
  IF s0.rc = LDAP_SUCCESS
  THEN ldap_pvt_sasl_bind_success(s0, in.getpropOk, in.allocOk)
  ELSE IF s0.rc # LDAP_SASL_BIND_IN_PROGRESS
  THEN BindReturn(sasl_dispose(FreeBlob(s0, s0.ccred)), s0.ld_errno, "server")
  ELSE
  LET s2 == ProviderCall(s0, in.steprc, in.hasBlob)
      s3 == FreeBlob(s2, s2.scred)
  IN
  IF SaslFailed(in.steprc)
  THEN BindReturn(sasl_dispose([s3 EXCEPT !.ld_errno = sasl_err2ldap(in.steprc)]),
                  sasl_err2ldap(in.steprc), "step")
  ELSE SendBind(s3)

\* a variant of lines 870-901 whose loop goes on after a failed
\* sasl_client_step
ldap_pvt_sasl_bind_resume_stepblind(s, in) ==
  LET s0 == ldap_sasl_bind_s(s, in.resp, in.hasScred)
  IN
  IF s0.rc = LDAP_SUCCESS
  THEN ldap_pvt_sasl_bind_success(s0, in.getpropOk, in.allocOk)
  ELSE IF s0.rc # LDAP_SASL_BIND_IN_PROGRESS
  THEN BindReturn(sasl_dispose(FreeBlob(s0, s0.ccred)), s0.ld_errno, "server")
  ELSE
  LET s1 == [FreeBlob(s0, s0.ccred) EXCEPT !.ccred = 0]
      s2 == ProviderCall(s1, in.steprc, in.hasBlob)
      s3 == FreeBlob(s2, s2.scred)
  IN SendBind(s3)

\* lines 870-901 after ldap_sasl_bind_s has returned, and 903-910
ldap_pvt_sasl_bind_resume(s, in) ==
  LET s0 == ldap_sasl_bind_s(s, in.resp, in.hasScred)
  IN
  IF s0.rc = LDAP_SUCCESS
  THEN ldap_pvt_sasl_bind_success(s0, in.getpropOk, in.allocOk)
  ELSE IF s0.rc # LDAP_SASL_BIND_IN_PROGRESS
  THEN BindReturn(sasl_dispose(FreeBlob(s0, s0.ccred)), s0.ld_errno, "server")
  ELSE
  LET s1 == [FreeBlob(s0, s0.ccred) EXCEPT !.ccred = 0]
      s2 == ProviderCall(s1, in.steprc, in.hasBlob)
      s3 == FreeBlob(s2, s2.scred)
  IN
  IF SaslFailed(in.steprc)
  THEN BindReturn(sasl_dispose([s3 EXCEPT !.ld_errno = sasl_err2ldap(in.steprc)]),
                  sasl_err2ldap(in.steprc), "step")
  ELSE SendBind(s3)

\* the environment's answers during one call; an answer the taken path never
\* asks for is fixed, so that each path is drawn once
BindInputs ==
  LET base == [ openOk |-> TRUE, hostOk |-> TRUE, newrc |-> SASL_OK, ssf |-> 0,
                peerOk |-> TRUE, sockOk |-> TRUE, startrc |-> SASL_OK, hasBlob |-> FALSE ]
  IN { [base EXCEPT !.openOk = FALSE], [base EXCEPT !.hostOk = FALSE],
       [base EXCEPT !.newrc = SASL_NOMEM] }
     \cup { [base EXCEPT !.ssf = f, !.peerOk = FALSE] : f \in SSFValues }
     \cup { [base EXCEPT !.ssf = f, !.sockOk = FALSE] : f \in SSFValues }
     \cup { [base EXCEPT !.ssf = f, !.startrc = r, !.hasBlob = b] :
               f \in SSFValues, r \in StepResults, b \in BOOLEAN }

ResumeInputs ==
  LET base == [ resp |-> LDAP_SUCCESS, hasScred |-> FALSE, steprc |-> SASL_OK,
                hasBlob |-> FALSE, getpropOk |-> TRUE, allocOk |-> TRUE ]
  IN { [base EXCEPT !.resp = r, !.hasScred = c] :
          r \in {LDAP_INVALID_CREDENTIALS, LDAP_SERVER_DOWN}, c \in BOOLEAN }
     \cup { [base EXCEPT !.hasScred = c, !.getpropOk = g, !.allocOk = a] :
               c \in BOOLEAN, g \in BOOLEAN, a \in BOOLEAN }
     \cup { [base EXCEPT !.resp = LDAP_SASL_BIND_IN_PROGRESS, !.hasScred = c,
                         !.steprc = r, !.hasBlob = b] :
               c \in BOOLEAN, r \in StepResults, b \in BOOLEAN }

BindCall ==
  /\ bpc = "idle" /\ rpc = "idle"
  /\ nBinds < MaxBinds
  /\ \E in \in BindInputs : SetBS(ldap_pvt_sasl_bind_begin(BS, in))
  /\ UNCHANGED <<readVars, writeVars, errVars, dpc>>

BindResponse ==
  /\ bpc = "await"
  /\ \E in \in ResumeInputs :
       /\ in.resp = LDAP_SASL_BIND_IN_PROGRESS => nReq < MaxRounds
       /\ SetBS(ldap_pvt_sasl_bind_resume(BS, in))
  /\ UNCHANGED <<readVars, writeVars, errVars, dpc>>

\* ldap_set_option( ld, LDAP_OPT_PROTOCOL_VERSION, &v ) between two binds
SetProtocolVersion ==
  /\ bpc = "idle" /\ rpc = "idle"
  /\ nBinds < MaxBinds
  /\ ld_version' \in {2, 3} \ {ld_version}
  /\ UNCHANGED <<connected, ld_sasl_context, ld_errno, heapVars, bindVars, layerVars,
                 bufVars, readVars, writeVars, errVars, dpc>>

\* ber_sockbuf_remove_io / ber_sockbuf_destroy calling sbi_remove
SockbufRemove ==
  /\ bpc = "idle" /\ rpc = "idle"
  /\ installed
  /\ SetBS(sb_sasl_remove(BS))
  /\ UNCHANGED <<readVars, writeVars, errVars, dpc>>

(***************************************************************************)
(* Initial states.                                                         *)
(***************************************************************************)
\* no sasl_decode was called yet
NoDecode == [n |-> 0, res |-> "none", over |-> FALSE, ret |-> 0, errno |-> 0, got |-> 0,
             ptr |-> 0, end |-> 0]

InitBind0 ==
  /\ bpc = "idle" /\ rc = 0 /\ saslrc = 0 /\ ccred = 0 /\ scred = 0
  /\ nProv = 0 /\ nReq = 0 /\ nInProg = 0

InitRead0 ==
  /\ rpc = "idle" /\ rlen = 0 /\ bufptr = 0 /\ rret = 0 /\ rerrno = 0
  /\ pos = 0 /\ copied = <<>> /\ delivered = <<>>
  /\ faults = FALSE /\ intr = FALSE /\ tret = 1 /\ lastDecode = NoDecode

InitWrite0 == wret = 0 /\ wpath = "none" /\ nWrites = 0 /\ wireOut = <<>> /\ encoded = <<>>

InitErr0 == saslerr = 0 /\ ldaprc = 0 /\ epc = "ret"

\* a handle on which no SASL bind was attempted yet
InitFresh ==
  /\ ld_version \in {2, 3} /\ connected \in BOOLEAN
  /\ ld_sasl_context = 0 /\ ld_errno = 0
  /\ ctxState = <<>> /\ ctxSSF = <<>> /\ blobFrees = <<>>
  /\ InitBind0 /\ nBinds = 0 /\ bind_ret = 0 /\ bind_path = "none"
  /\ installed = FALSE /\ p_ctx = 0 /\ nSetup = 0 /\ nRemove = 0
  /\ sec_buf_in = BufInit /\ buf_in = BufInit /\ buf_out = BufInit
  /\ InitRead0 /\ wire = <<>> /\ plain = <<>>
  /\ InitWrite0 /\ InitErr0 /\ dpc = "none"

(***************************************************************************)
(* The negotiation: binds, re-binds and removal of the layer.              *)
(***************************************************************************)
NextBind == BindCall \/ BindResponse \/ SockbufRemove \/ SetProtocolVersion

SpecBind == InitFresh /\ [][NextBind]_vars

(***************************************************************************)
(* The status mapping on its own: sasl_err2ldap applied to any status.     *)
(***************************************************************************)
InitErr ==
  /\ ld_version = 3 /\ connected = FALSE
  /\ ld_sasl_context = 0 /\ ld_errno = 0
  /\ ctxState = <<>> /\ ctxSSF = <<>> /\ blobFrees = <<>>
  /\ InitBind0 /\ nBinds = 0 /\ bind_ret = 0 /\ bind_path = "none"
  /\ installed = FALSE /\ p_ctx = 0 /\ nSetup = 0 /\ nRemove = 0
  /\ sec_buf_in = BufInit /\ buf_in = BufInit /\ buf_out = BufInit
  /\ InitRead0 /\ wire = <<>> /\ plain = <<>>
  /\ InitWrite0
  /\ saslerr \in (0 - MaxStatus)..MaxStatus /\ ldaprc = 0 /\ epc = "call"
  /\ dpc = "none"

ErrMap ==
  /\ epc = "call"
  /\ ldaprc' = sasl_err2ldap(saslerr)
  /\ epc' = "ret"
  /\ UNCHANGED <<saslerr, ldVars, heapVars, bindVars, layerVars, bufVars, readVars, writeVars, dpc>>

NextErr == ErrMap

SpecErr == InitErr /\ [][NextErr]_vars

(***************************************************************************)
(* sb_sasl_read (sasl.c 508-594).  The function blocks in the transport    *)
(* (LBER_SBIOD_READ_NEXT) at line 531 ("hdr") and at line 560 ("body");    *)
(* each piece below runs from one such point to the next or to the return. *)
(* growOk: ber_pvt_sb_grow_buffer succeeds if called; junk: the values     *)
(* read from never-written bytes of the header.                            *)
(***************************************************************************)
RS ==
  [ sec_buf_in |-> sec_buf_in, buf_in |-> buf_in,
    rpc |-> rpc, rlen |-> rlen, bufptr |-> bufptr, rret |-> rret, rerrno |-> rerrno,
    pos |-> pos, copied |-> copied, delivered |-> delivered,
    faults |-> faults, intr |-> intr, tret |-> tret, lastDecode |-> lastDecode ]

SetRS(r) ==
  /\ sec_buf_in' = r.sec_buf_in /\ buf_in' = r.buf_in
  /\ rpc' = r.rpc /\ rlen' = r.rlen /\ bufptr' = r.bufptr
  /\ rret' = r.rret /\ rerrno' = r.rerrno
  /\ pos' = r.pos /\ copied' = r.copied /\ delivered' = r.delivered
  /\ faults' = r.faults /\ intr' = r.intr /\ tret' = r.tret /\ lastDecode' = r.lastDecode

\* memcpy of bytes to base + at
Patch(base, at, bytes) ==
  [i \in 1..Len(base) |->
     IF i > at /\ i <= at + Len(bytes) THEN bytes[i - at] ELSE base[i]]

\* the header bytes as the code reads them
HeaderJunk(base) ==
  IF \E i \in 1..PKT_HEADER : base[i] = Uninit
  THEN [1..PKT_HEADER -> JunkBytes]
  ELSE { [i \in 1..PKT_HEADER |-> 0] }

ReadHeader(base, junk) ==
  [i \in 1..Len(base) |->
     IF i <= PKT_HEADER /\ base[i] = Uninit THEN junk[i] ELSE base[i]]

\* return ret: the caller is told of ret bytes when ret > 0
ReadReturn(r, ret, errno) ==
  [r EXCEPT !.rpc = "idle", !.rret = ret, !.rerrno = errno,
            !.delivered = IF ret > 0
                          THEN @ \o SubSeq(r.copied, Len(r.copied) - ret + 1, Len(r.copied))
                          ELSE @]

\* a variant of lines 572-593 that leaves the undecodable packet staged
sb_sasl_read_decode_keeping(r) ==
  LET sec == r.sec_buf_in
      d   == sasl_decode(SubSeq(sec.base, 1, sec.end))
      over == BE32Above(sec.base, MAX_BUFF_SIZE)
  IN IF ~d.ok
     THEN ReadReturn([r EXCEPT !.lastDecode = [n |-> r.lastDecode.n + 1, res |-> "fail", over |-> over, ret |-> -1,
                                               errno |-> EIO, got |-> 0,
                                               ptr |-> sec.ptr, end |-> sec.end]],
                     -1, EIO)
     ELSE LET bin == [base |-> d.out, ptr |-> r.buf_in.ptr,
                      end |-> Len(d.out), size |-> Len(d.out)]
              co  == ber_pvt_sb_copy_out(bin, r.rlen)
          IN ReadReturn([r EXCEPT !.sec_buf_in = sb_sasl_drop_packet(sec),
                                  !.buf_in = co.buf,
                                  !.bufptr = @ + co.n,
                                  !.copied = @ \o co.out,
                                  !.lastDecode = [n |-> r.lastDecode.n + 1,
                                                  res |-> "ok", over |-> over,
                                                  ret |-> r.bufptr + co.n,
                                                  errno |-> 0, got |-> co.n,
                                                  ptr |-> sec.ptr, end |-> sec.end]],
                        r.bufptr + co.n, 0)

\* lines 572-593
sb_sasl_read_decode(r) ==
  LET sec == r.sec_buf_in
      d   == sasl_decode(SubSeq(sec.base, 1, sec.end))
      over == BE32Above(sec.base, MAX_BUFF_SIZE)
  IN IF ~d.ok
     THEN ReadReturn([r EXCEPT !.sec_buf_in = sb_sasl_drop_packet(sec),
                               !.lastDecode = [n |-> r.lastDecode.n + 1, res |-> "fail", over |-> over, ret |-> -1,
                                               errno |-> EIO, got |-> 0,
                                               ptr |-> sec.ptr, end |-> sec.end]],
                     -1, EIO)
     ELSE LET bin == [base |-> d.out, ptr |-> r.buf_in.ptr,
                      end |-> Len(d.out), size |-> Len(d.out)]
              co  == ber_pvt_sb_copy_out(bin, r.rlen)
          IN ReadReturn([r EXCEPT !.sec_buf_in = sb_sasl_drop_packet(sec),
                                  !.buf_in = co.buf,
                                  !.bufptr = @ + co.n,
                                  !.copied = @ \o co.out,
                                  !.lastDecode = [n |-> r.lastDecode.n + 1,
                                                  res |-> "ok", over |-> over,
                                                  ret |-> r.bufptr + co.n,
                                                  errno |-> 0, got |-> co.n,
                                                  ptr |-> sec.ptr, end |-> sec.end]],
                        r.bufptr + co.n, 0)

\* lines 555-570: the loop test
sb_sasl_read_body(r) ==
  IF r.sec_buf_in.ptr < r.sec_buf_in.end
  THEN [r EXCEPT !.rpc = "body"]
  ELSE sb_sasl_read_decode(r)

\* lines 543-553
sb_sasl_read_length(r, growOk, junk) ==
  LET base == ReadHeader(r.sec_buf_in.base, junk)
      sec  == [r.sec_buf_in EXCEPT !.base = base]
      ret  == sb_sasl_pkt_length(base)
  IN IF sec.size < ret /\ ~growOk
     THEN ReadReturn([r EXCEPT !.sec_buf_in = sec], -1, ENOMEM)
     ELSE sb_sasl_read_body(
            [r EXCEPT !.sec_buf_in =
               [(IF sec.size < ret THEN ber_pvt_sb_grow_buffer(sec, ret) ELSE sec)
                  EXCEPT !.end = ret]])

\* lines 529-541: the loop test
sb_sasl_read_header(r, growOk, junk) ==
  IF r.sec_buf_in.ptr < PKT_HEADER
  THEN [r EXCEPT !.rpc = "hdr"]
  ELSE sb_sasl_read_length(r, growOk, junk)

\* lines 519-527: the call
sb_sasl_read_call(r, len, growOk, junk) ==
  LET co == ber_pvt_sb_copy_out(r.buf_in, len)
      r0 == [r EXCEPT !.buf_in = co.buf, !.bufptr = co.n, !.rlen = len - co.n,
                      !.copied = @ \o co.out, !.intr = FALSE]
  IN IF r0.rlen = 0
     THEN ReadReturn(r0, r0.bufptr, 0)
     ELSE sb_sasl_read_header([r0 EXCEPT !.buf_in = ber_pvt_sb_buf_destroy(r0.buf_in)],
                              growOk, junk)

\* where line 531 has the transport store the header bytes it reads
HeaderReadOffset(sec) == 0

\* a variant that asks the transport for all the room the staging buffer has
ReadRequest_room(r) == r.sec_buf_in.size - r.sec_buf_in.ptr

\* bytes asked of the transport at line 531-532 / 558-561
ReadRequest(r) ==
  IF r.rpc = "hdr" THEN PKT_HEADER - r.sec_buf_in.ptr
  ELSE r.sec_buf_in.end - r.sec_buf_in.ptr

\* LBER_SBIOD_READ_NEXT returned k > 0 bytes: lines 531-541 / 560-570
sb_sasl_read_data(r, bytes, growOk, junk) ==
  LET k   == Len(bytes)
      sec == r.sec_buf_in
      at  == IF r.rpc = "hdr" THEN HeaderReadOffset(sec) ELSE sec.ptr
      r0  == [r EXCEPT !.sec_buf_in = [sec EXCEPT !.base = Patch(sec.base, at, bytes),
                                                  !.ptr = @ + k],
                       !.pos = @ + k]
  IN IF r.rpc = "hdr"
     THEN sb_sasl_read_header(r0, growOk, junk)
     ELSE sb_sasl_read_body(r0)

\* LBER_SBIOD_READ_NEXT returned ret <= 0 with errno # EINTR: lines 537-538 / 566-567
sb_sasl_read_fail(r, ret) ==
  ReadReturn([r EXCEPT !.faults = TRUE, !.tret = ret], ret, 0)

\* LBER_SBIOD_READ_NEXT returned < 0 with errno = EINTR: lines 534-535 / 563-564
\* a variant that returns the interrupted result to the caller
sb_sasl_read_eintr_surfacing(r) ==
  ReadReturn([r EXCEPT !.intr = TRUE, !.tret = -1], -1, 0)

sb_sasl_read_eintr(r) == [r EXCEPT !.intr = TRUE, !.tret = -1]

ReadLens == 1..MaxReadLen

NoJunk == [i \in 1..PKT_HEADER |-> 0]

ReadCall ==
  /\ rpc = "idle" /\ bpc = "idle" /\ installed
  /\ \E len \in ReadLens, growOk \in BOOLEAN :
       \E junk \in (IF sec_buf_in.ptr >= PKT_HEADER
                    THEN HeaderJunk(sec_buf_in.base) ELSE {NoJunk}) :
         /\ growOk \/ sec_buf_in.ptr >= PKT_HEADER
         /\ SetRS(sb_sasl_read_call(RS, len, growOk, junk))
  /\ UNCHANGED <<ldVars, heapVars, bindVars, layerVars, buf_out, wire, plain, writeVars, errVars, dpc>>

ReadData ==
  /\ rpc \in {"hdr", "body"}
  /\ \E k \in 1..ReadRequest(RS), growOk \in BOOLEAN :
       /\ pos + k <= Len(wire)
       /\ LET bytes    == SubSeq(wire, pos + 1, pos + k)
              complete == rpc = "hdr" /\ sec_buf_in.ptr + k >= PKT_HEADER
          IN /\ growOk \/ complete
             /\ \E junk \in (IF complete
                              THEN HeaderJunk(Patch(sec_buf_in.base,
                                                    HeaderReadOffset(sec_buf_in), bytes))
                              ELSE {NoJunk}) :
                  SetRS(sb_sasl_read_data(RS, bytes, growOk, junk))
  /\ UNCHANGED <<ldVars, heapVars, bindVars, layerVars, buf_out, wire, plain, writeVars, errVars, dpc>>

ReadInterrupted ==
  /\ rpc \in {"hdr", "body"}
  /\ SetRS(sb_sasl_read_eintr(RS))
  /\ UNCHANGED <<ldVars, heapVars, bindVars, layerVars, buf_out, wire, plain, writeVars, errVars, dpc>>

ReadFails ==
  /\ rpc \in {"hdr", "body"}
  /\ \E ret \in {0, -1} : SetRS(sb_sasl_read_fail(RS, ret))
  /\ UNCHANGED <<ldVars, heapVars, bindVars, layerVars, buf_out, wire, plain, writeVars, errVars, dpc>>

(***************************************************************************)
(* ber_pvt_sb_do_write (liblber sockbuf.c) and sb_sasl_write (596-630).    *)
(* o is what LBER_SBIOD_WRITE_NEXT finally returns (an EINTR result is     *)
(* retried inside ber_pvt_sb_do_write): -1, 0 or the bytes it accepted.    *)
(***************************************************************************)
WS ==
  [ buf_out |-> buf_out, wret |-> wret, wpath |-> wpath, nWrites |-> nWrites,
    wireOut |-> wireOut, encoded |-> encoded ]

SetWS(w) ==
  /\ buf_out' = w.buf_out /\ wret' = w.wret /\ wpath' = w.wpath
  /\ nWrites' = w.nWrites /\ wireOut' = w.wireOut /\ encoded' = w.encoded

\* [ret, w]: a short write moves the cursor and is reported as -1
ber_pvt_sb_do_write(w, o) ==
  LET b     == w.buf_out
      to_go == b.end - b.ptr
  IN IF o <= 0 THEN [ret |-> o, w |-> w]
     ELSE LET ptr == b.ptr + o
              nb  == IF ptr = b.end THEN [b EXCEPT !.ptr = 0, !.end = 0]
                     ELSE [b EXCEPT !.ptr = ptr]
          IN [ ret |-> IF o < to_go THEN -1 ELSE o,
               w   |-> [w EXCEPT !.buf_out = nb,
                                 !.wireOut = @ \o SubSeq(b.base, b.ptr + 1, b.ptr + o)] ]

WriteReturn(w, ret, path) == [w EXCEPT !.wret = ret, !.wpath = path]

\* lines 614-629
sb_sasl_write_encode(w, data, encOk, o2) ==
  LET w0 == [w EXCEPT !.buf_out = ber_pvt_sb_buf_destroy(w.buf_out)]
  IN IF ~encOk THEN WriteReturn(w0, -1, "encfail")
     ELSE LET pkt == sasl_encode(data)
              w1  == [w0 EXCEPT !.buf_out = [base |-> pkt, ptr |-> 0,
                                            end |-> Len(pkt), size |-> Len(pkt)],
                                !.encoded = Append(@, pkt)]
              d   == ber_pvt_sb_do_write(w1, o2)
          IN IF d.ret <= 0 THEN WriteReturn(d.w, d.ret, "unsent")
             ELSE WriteReturn(d.w, Len(data), "sent")

\* a variant that encodes the next packet whatever the flush of the pending one did
sb_sasl_write_noflushcheck(w, data, o1, encOk, o2) ==
  LET w0 == [w EXCEPT !.nWrites = @ + 1]
  IN IF w0.buf_out.ptr # w0.buf_out.end
     THEN sb_sasl_write_encode(ber_pvt_sb_do_write(w0, o1).w, data, encOk, o2)
     ELSE sb_sasl_write_encode(w0, data, encOk, o2)

\* lines 607-612, then 614-629
sb_sasl_write(w, data, o1, encOk, o2) ==
  LET w0 == [w EXCEPT !.nWrites = @ + 1]
  IN IF w0.buf_out.ptr # w0.buf_out.end
     THEN LET d == ber_pvt_sb_do_write(w0, o1)
          IN IF d.ret <= 0 THEN WriteReturn(d.w, d.ret, "pending")
             ELSE sb_sasl_write_encode(d.w, data, encOk, o2)
     ELSE sb_sasl_write_encode(w0, data, encOk, o2)

WriteCall ==
  /\ rpc = "idle" /\ bpc = "idle" /\ installed
  /\ nWrites < MaxWrites
  /\ \E data \in Payloads, encOk \in BOOLEAN :
       LET pending == buf_out.end - buf_out.ptr
       IN \E o1 \in (IF pending = 0 THEN {0} ELSE -1..pending),
             o2 \in -1..(PKT_HEADER + Len(data) + 1) :
            /\ encOk \/ o2 = 0
            /\ (o1 >= pending /\ encOk) => Len(encoded) < MaxPackets
            /\ SetWS(sb_sasl_write(WS, data, o1, encOk, o2))
  /\ UNCHANGED <<ldVars, heapVars, bindVars, layerVars, sec_buf_in, buf_in, readVars, errVars, dpc>>

(***************************************************************************)
(* The layer in use: the state after one successful bind with a non-zero   *)
(* SSF installed the layer, an inbound stream, and reads or writes.        *)
(***************************************************************************)
InitLayer0 ==
  /\ ld_version = 3 /\ connected = TRUE
  /\ ld_sasl_context = 1 /\ ld_errno = 0
  /\ ctxState = <<0>> /\ ctxSSF = <<56>> /\ blobFrees = <<>>
  /\ bpc = "idle" /\ rc = 0 /\ saslrc = 0 /\ ccred = 0 /\ scred = 0
  /\ nProv = 1 /\ nReq = 1 /\ nInProg = 0 /\ nBinds = 1 /\ bind_ret = 0 /\ bind_path = "success"
  /\ installed = TRUE /\ p_ctx = 1 /\ nSetup = 1 /\ nRemove = 0
  /\ buf_in = BufInit /\ buf_out = BufInit
  /\ InitRead0 /\ InitWrite0 /\ InitErr0

InitInstalled ==
  /\ InitLayer0 /\ dpc = "none"
  /\ sec_buf_in = ber_pvt_sb_grow_buffer([BufInit EXCEPT !.base = FreshMem], MIN_BUFF_SIZE)

InitRead ==
  /\ InitInstalled
  /\ \/ \E a, b \in Payloads : wire = sasl_encode(a) \o sasl_encode(b) /\ plain = a \o b
     \/ wire \in OverWires \cup {CeilWire} /\ plain = <<>>

NextRead == ReadCall \/ ReadData \/ ReadInterrupted \/ ReadFails

SpecRead == InitRead /\ [][NextRead]_vars

InitWrite == InitInstalled /\ wire = <<>> /\ plain = <<>>

NextWrite == WriteCall

SpecWrite == InitWrite /\ [][NextWrite]_vars

(***************************************************************************)
(* sb_sasl_drop_packet on its own, applied to staging states with          *)
(* buf_ptr >= buf_end: a consumed frame (or none) followed by leftover     *)
(* bytes, which are the first bytes of some inbound stream.                *)
(***************************************************************************)
Prefixes(q) == { SubSeq(q, 1, n) : n \in 0..Len(q) }

DropFrames == { <<>> } \cup { sasl_encode(a) : a \in Payloads }

DropLeftovers == UNION { Prefixes(w) : w \in ValidWires \cup OverWires \cup {CeilWire} }

InitDrop ==
  /\ InitLayer0 /\ wire = <<>> /\ plain = <<>>
  /\ dpc = "call"
  /\ \E f \in DropFrames, l \in DropLeftovers :
       sec_buf_in = [ base |-> Patch([i \in 1..(MemTrack + Len(f)) |-> Uninit], 0, f \o l),
                      ptr  |-> Len(f) + Len(l),
                      end  |-> Len(f),
                      size |-> MIN_BUFF_SIZE ]

DropCall ==
  /\ dpc = "call"
  /\ sec_buf_in' = sb_sasl_drop_packet(sec_buf_in)
  /\ dpc' = "ret"
  /\ UNCHANGED <<ldVars, heapVars, bindVars, layerVars, buf_in, buf_out, readVars,
                 writeVars, errVars>>

NextDrop == DropCall

SpecDrop == InitDrop /\ [][NextDrop]_vars

(***************************************************************************)
(* Notions the properties below are stated in.                             *)
(***************************************************************************)
\* the context created by the latest bind that reached sasl_client_new
LastCtx == Len(ctxState)

LiveContexts == { c \in 1..Len(ctxState) : ctxState[c] = 0 }

BindReturned(paths) == bpc = "idle" /\ bind_path \in paths

\* a failure return taken after sasl_client_new was called
FailurePaths == {"new", "peer", "sock", "start", "server", "step"}

\* the layer a read or write on the Sockbuf enters first (ber_sockbuf dispatch)
SockbufTopLayer == IF installed THEN "sasl" ELSE "transport"

(***************************************************************************)
(* Properties.                                                             *)
(***************************************************************************)

\* C4 (as claimed): every failure return of ldap_pvt_sasl_bind taken after a
\* context was created leaves the handle with no live context: the context
\* was disposed and ld_sasl_context is NULL.
C4_FailureDisposesContext ==
  BindReturned(FailurePaths) => (ld_sasl_context = 0 /\ LiveContexts = {})

\* C5 (as claimed): when ldap_pvt_sasl_bind has returned, on success, on a
\* terminal server failure or on a provider step failure, every credential
\* blob handed to it during the call has been freed exactly once.
C5_BlobsFreedOnce ==
  BindReturned({"success", "server", "step"}) =>
    \A b \in 1..Len(blobFrees) : blobFrees[b] = 1

\* C6 (as claimed): sasl_err2ldap maps continue to "more results", success
\* to success, no-memory to no-memory, no-authz to parameter error, and
\* generic failure, too-weak, bad-auth and no-mech to "authentication
\* unknown"; every result is success or an API error code.
C6_ErrorMapping ==
  epc = "ret" =>
    /\ (saslerr = SASL_CONTINUE => ldaprc = LDAP_MORE_RESULTS_TO_RETURN)
    /\ (saslerr = SASL_OK => ldaprc = LDAP_SUCCESS)
    /\ (saslerr = SASL_NOMEM => ldaprc = LDAP_NO_MEMORY)
    /\ (saslerr = SASL_NOAUTHZ => ldaprc = LDAP_PARAM_ERROR)
    /\ (saslerr \in {SASL_FAIL, SASL_TOOWEAK, SASL_BADAUTH, SASL_NOMECH}
          => ldaprc = LDAP_AUTH_UNKNOWN)
    /\ (ldaprc = LDAP_SUCCESS \/ LDAP_API_ERROR(ldaprc))

\* C6 (amended): as above, except that generic failure (SASL_FAIL), like
\* every status the switch does not name, maps to the local-error code;
\* too-weak, encrypt-needed, bad-auth and no-mech map to "authentication
\* unknown"; success is returned for SASL_OK only.
C6_ErrorMappingAmended ==
  epc = "ret" =>
    /\ (saslerr = SASL_CONTINUE => ldaprc = LDAP_MORE_RESULTS_TO_RETURN)
    /\ (saslerr = SASL_OK <=> ldaprc = LDAP_SUCCESS)
    /\ (saslerr = SASL_NOMEM => ldaprc = LDAP_NO_MEMORY)
    /\ (saslerr = SASL_NOAUTHZ => ldaprc = LDAP_PARAM_ERROR)
    /\ (saslerr \in {SASL_TOOWEAK, SASL_ENCRYPT, SASL_BADAUTH, SASL_NOMECH}
          => ldaprc = LDAP_AUTH_UNKNOWN)
    /\ (saslerr \notin {SASL_CONTINUE, SASL_OK, SASL_NOMEM, SASL_NOAUTHZ, SASL_TOOWEAK,
                        SASL_ENCRYPT, SASL_BADAUTH, SASL_NOMECH}
          => ldaprc = LDAP_LOCAL_ERROR)
    /\ (ldaprc = LDAP_SUCCESS \/ LDAP_API_ERROR(ldaprc))

\* C6 witness: a generic failure and a status the switch does not name have
\* both been mapped (one per behaviour); here the generic failure.
C6_Witness == epc = "ret" /\ saslerr = SASL_FAIL /\ ldaprc = LDAP_LOCAL_ERROR

\* C7 (as claimed): the layer is on the stream only with a context whose
\* SSF is non-zero, and when a bind has just succeeded with a non-zero SSF
\* and the layer is on the stream, there is exactly one such layer and its
\* engine is the context that bind negotiated.
C7_LayerUsesNegotiatedContext ==
  /\ installed => (p_ctx # 0 /\ ctxSSF[p_ctx] # 0)
  /\ (BindReturned({"success"}) /\ ctxSSF[LastCtx] # 0 /\ installed)
       => (p_ctx = LastCtx /\ nSetup = nRemove + 1)

\* C8 (as claimed): after ldap_pvt_sasl_bind succeeded with SSF zero, reads
\* and writes on the stream go straight to the transport.
C8_ZeroSSFPassThrough ==
  (BindReturned({"success"}) /\ ctxSSF[LastCtx] = 0) => SockbufTopLayer = "transport"

\* C9 (as claimed): when ldap_pvt_sasl_bind returns success with SSF zero,
\* the context has been disposed and the handle holds no live context.
C9_ZeroSSFDiscards ==
  (BindReturned({"success"}) /\ ctxSSF[LastCtx] = 0)
    => (ld_sasl_context = 0 /\ ctxState[LastCtx] = 1)

\* C9 (amended): when ldap_pvt_sasl_bind returns success with SSF zero, the
\* context it negotiated has not been disposed: it is still the handle's
\* ld_sasl_context, live.
C9_ZeroSSFRetains ==
  (BindReturned({"success"}) /\ ctxSSF[LastCtx] = 0)
    => (ld_sasl_context = LastCtx /\ ctxState[LastCtx] = 0)

\* C9 witness: a bind has returned success with SSF zero
C9_Witness ==
  BindReturned({"success"}) /\ ctxSSF[LastCtx] = 0 /\ ld_sasl_context = LastCtx

\* C10 (as claimed): sb_sasl_remove disposes the layer's context (once) and
\* releases the three buffers.
C10_RemoveDisposes ==
  [][ nRemove' = nRemove + 1 =>
        /\ ctxState' = [ctxState EXCEPT ![p_ctx] = @ + 1]
        /\ sec_buf_in' = BufInit /\ buf_in' = BufInit /\ buf_out' = BufInit ]_vars

\* C10 (amended): sb_sasl_remove releases the three buffers and takes the
\* layer off the stream, and disposes no context: every context keeps its
\* state and the handle keeps its ld_sasl_context.
C10_RemoveKeepsContext ==
  [][ nRemove' = nRemove + 1 =>
        /\ ctxState' = ctxState /\ ld_sasl_context' = ld_sasl_context
        /\ ~installed'
        /\ sec_buf_in' = BufInit /\ buf_in' = BufInit /\ buf_out' = BufInit ]_vars

\* C10 witness: the layer of the only bind was removed and that bind's
\* context is still live in the handle
C10_Witness ==
  /\ nBinds = 1 /\ nSetup = 1 /\ nRemove = 1 /\ ~installed
  /\ ld_sasl_context = 1 /\ ctxState[1] = 0

IsPrefix(a, b) == Len(a) <= Len(b) /\ SubSeq(b, 1, Len(a)) = a

RECURSIVE Concat(_)
Concat(qs) == IF qs = <<>> THEN <<>> ELSE Head(qs) \o Concat(Tail(qs))

\* the unread content [buf_ptr, buf_end) of a buffer
Content(b) == SubSeq(b.base, b.ptr + 1, b.end)

\* C1 (as claimed): for a stream of two valid packets that the transport
\* hands over in positive-length chunks, whatever the split points, the
\* bytes sb_sasl_read gives the caller are the two payloads in order: what
\* was copied out is always a prefix of them, no packet fails to decode,
\* and once the transport has handed over the last byte of the stream
\* every payload byte has been copied out or waits in the ready buffer.
C1_Framing ==
  (wire \in ValidWires /\ ~faults) =>
    /\ IsPrefix(delivered, plain)
    /\ IsPrefix(copied, plain)
    /\ lastDecode.res # "fail"
    /\ (pos = Len(wire) => copied \o Content(buf_in) = plain)

\* C2: over any sequence of sb_sasl_write calls and transport acceptances,
\* the bytes handed to the transport followed by the bytes still pending in
\* buf_out are exactly the packets sasl_encode produced, in encode order:
\* a call that finds a packet pending and does not flush it completely
\* encodes nothing and keeps the pending bytes.
C2_WriteOrdering ==
  /\ wireOut \o Content(buf_out) = Concat(encoded)
  /\ wpath = "pending" => buf_out.ptr < buf_out.end

\* C2 witness: a write found a packet partly flushed, the transport took
\* some more of it but not all, and the call returned without encoding
C2_Witness ==
  /\ wpath = "pending" /\ Len(encoded) = 1
  /\ 0 < buf_out.ptr /\ buf_out.ptr < buf_out.end
  /\ Len(wireOut) = buf_out.ptr

\* C3 (as claimed): for a stream that starts with a packet whose header
\* declares more than MAX_BUFF_SIZE bytes, handed over in positive-length
\* chunks, while the transport is within the first 16 + 4 bytes of the
\* stream: the staging buffer's capacity stays within the ceiling, the
\* frame being assembled has size 16 + 4, nothing is delivered to the
\* caller, and the call that takes the 20th byte returns -1 with EIO after
\* a failed decode.
C3_OverCeilingHeader ==
  (wire \in OverWires /\ ~faults /\ pos <= PKT_SENTINEL + PKT_HEADER) =>
    /\ sec_buf_in.size <= MAX_BUFF_SIZE
    /\ (rpc = "body" => sec_buf_in.end = PKT_SENTINEL + PKT_HEADER)
    /\ delivered = <<>>
    /\ (pos = PKT_SENTINEL + PKT_HEADER /\ rpc = "idle")
         => (lastDecode.res = "fail" /\ rret = -1 /\ rerrno = EIO)

\* C11: in every state every context ever created except the latest has
\* been disposed, exactly once, and the latest is disposed at most once and
\* is the one the handle holds if it is live: the connection has at most one
\* live context, and a bind that creates a context has disposed the one
\* before it.
C11_AtMostOneLiveContext ==
  /\ \A c \in 1..Len(ctxState) : c < LastCtx => ctxState[c] = 1
  /\ \A c \in 1..Len(ctxState) : ctxState[c] <= 1
  /\ LiveContexts \subseteq {ld_sasl_context}
  /\ Cardinality(LiveContexts) <= 1

\* C11 witness: a second bind reached context creation while the handle
\* held the live context of a first, successful bind
C11_Witness ==
  /\ nBinds = 2 /\ Len(ctxState) = 2
  /\ ctxState = <<1, 0>> /\ ld_sasl_context = 2
  /\ bpc = "await"

\* C12: when ldap_pvt_sasl_bind has received k in-progress responses and
\* waits for the next response or has returned success, the provider was
\* called exactly k + 1 times and exactly k + 1 bind requests were sent
\* (each request follows one provider call); and whenever a request is
\* outstanding, every blob but the outbound one now held has been freed
\* exactly once and the one held has not been freed: the blob held before a
\* sasl_client_step was freed before the step replaced it.
C12_NegotiationRounds ==
  /\ (bpc = "await" \/ BindReturned({"success"}))
       => (nProv = nInProg + 1 /\ nReq = nInProg + 1)
  /\ bpc = "await"
       => \A b \in 1..Len(blobFrees) :
            blobFrees[b] = (IF b = ccred THEN 0 ELSE 1)

\* C12 witness: start -> in-progress -> in-progress -> success, with three
\* provider calls and three bind requests
C12_Witness ==
  /\ BindReturned({"success"})
  /\ nInProg = 2 /\ nProv = 3 /\ nReq = 3

\* C13: a call of ldap_pvt_sasl_bind on a handle whose version is below 3
\* returns LDAP_NOT_SUPPORTED at once: no provider call, no bind request,
\* and the handle's context, every context's state and the layer with its
\* buffers are left as they were.
C13_VersionBelow3 ==
  [][ (nBinds' = nBinds + 1 /\ ld_version < LDAP_VERSION3) =>
        /\ bpc' = "idle" /\ bind_ret' = LDAP_NOT_SUPPORTED
        /\ ld_errno' = LDAP_NOT_SUPPORTED
        /\ nProv' = 0 /\ nReq' = 0
        /\ ld_sasl_context' = ld_sasl_context
        /\ ctxState' = ctxState /\ ctxSSF' = ctxSSF
        /\ UNCHANGED <<layerVars, bufVars>> ]_vars

\* C13 witness: the call was made on a version-2 handle that held the live
\* context of an earlier bind, with the layer installed
C13_Witness ==
  /\ BindReturned({"version"}) /\ bind_ret = LDAP_NOT_SUPPORTED
  /\ ld_version < LDAP_VERSION3
  /\ ld_sasl_context # 0 /\ ctxState[ld_sasl_context] = 0
  /\ installed /\ p_ctx = ld_sasl_context

CursorsOrdered(b) == 0 <= b.ptr /\ b.ptr <= b.end /\ b.end <= b.size

\* C15 (as claimed): between two operations of the layer, also after a
\* call that returned early on a transport result <= 0, each of the three
\* buffers has buf_ptr <= buf_end <= buf_size, and holds at most one
\* packet: the staged bytes do not exceed one frame and the pending output
\* is the tail of the packet encoded last.
C15_FrameBufferInvariant ==
  (installed /\ rpc = "idle") =>
    /\ CursorsOrdered(sec_buf_in)
    /\ CursorsOrdered(buf_in)
    /\ CursorsOrdered(buf_out)
    /\ buf_out.ptr < buf_out.end =>
         (encoded # <<>> /\ Content(buf_out)
            = SubSeq(encoded[Len(encoded)], buf_out.ptr + 1, Len(encoded[Len(encoded)])))

\* C16 (as claimed): a call of sb_sasl_write in which the caller's data was
\* encoded (the exits after sasl_encode succeeded, whatever the transport
\* then accepted of the new packet) has returned the caller's len, and a
\* call that has returned anything else (here: a value <= 0) has encoded
\* and queued nothing.
C16_WriteReturnsLen ==
  /\ wpath \in {"sent", "unsent"} =>
       wret = Len(sasl_decode(encoded[Len(encoded)]).out)
  /\ wpath \in {"pending", "encfail"} => wret <= 0

\* C17: a transport read that is interrupted (EINTR) in the header phase or
\* in the body phase does not end the call: the phase, the staging buffer
\* with its cursors, the byte count asked of the transport next and what
\* the caller was told are unchanged; and a call that ends on any other
\* transport result <= 0 returns that very result, without setting errno
\* and without touching the staging buffer.
C17_InterruptRetried ==
  [][ /\ (~intr /\ intr') =>
           /\ rpc' = rpc /\ rpc \in {"hdr", "body"}
           /\ sec_buf_in' = sec_buf_in
           /\ ReadRequest(RS)' = ReadRequest(RS)
           /\ rret' = rret /\ delivered' = delivered /\ pos' = pos
      /\ (rpc \in {"hdr", "body"} /\ rpc' = "idle" /\ pos' = pos) =>
           /\ tret' \in {0, -1} /\ rret' = tret' /\ rerrno' = 0
           /\ sec_buf_in' = sec_buf_in
    ]_vars

\* C17 witness: a call was interrupted in the body phase and is still
\* collecting the packet, the caller having seen nothing
C17_Witness ==
  /\ intr /\ tret = -1 /\ ~faults
  /\ rpc = "body" /\ sec_buf_in.ptr > PKT_HEADER /\ sec_buf_in.ptr < sec_buf_in.end

(***************************************************************************)
(* C18 (as amended): for every staging state with buf_ptr >= buf_end,      *)
(* sb_sasl_drop_packet moves the buf_ptr - buf_end leftover bytes          *)
(* unchanged to the start of the buffer, sets buf_ptr to that count and    *)
(* buf_end to the frame size of the shifted header when at least 4 bytes   *)
(* remain and to 0 otherwise; the resulting state is "nothing buffered",   *)
(* or fewer than 4 header bytes with buf_end = 0, or at least 4 bytes with *)
(* buf_end >= 4 -- and in the last case the leftover may already hold the  *)
(* whole next packet (buf_ptr >= buf_end).                                 *)
(***************************************************************************)
DropLeft == SubSeq(sec_buf_in.base, sec_buf_in.end + 1, sec_buf_in.ptr)

DropFrameSize(h) ==
  IF BE32(h) > MAX_BUFF_SIZE THEN PKT_SENTINEL + PKT_HEADER ELSE BE32(h) + PKT_HEADER

DropEffect ==
  LET len == sec_buf_in.ptr - sec_buf_in.end
  IN /\ SubSeq(sec_buf_in'.base, 1, len) = DropLeft
     /\ sec_buf_in'.ptr = len
     /\ sec_buf_in'.end = IF len >= PKT_HEADER THEN DropFrameSize(DropLeft) ELSE 0
     /\ sec_buf_in'.size = sec_buf_in.size
     /\ Len(sec_buf_in'.base) = Len(sec_buf_in.base)

C19_LoopContinuation ==
  [][ bpc = "await" =>
        /\ (bpc' = "await") <=> (rc' = LDAP_SASL_BIND_IN_PROGRESS /\ ~SaslFailed(saslrc'))
        /\ bpc' = "await" => (nReq' = nReq + 1 /\ nInProg' = nInProg + 1 /\ nBinds' = nBinds)
        /\ bpc' # "await" => (bpc' = "idle" /\ nReq' = nReq /\ nBinds' = nBinds
                              /\ bind_path' \in {"success", "server", "step"}) ]_vars

\* the loop went round as often as the server answered in-progress
C19_Witness ==
  /\ bpc = "await" /\ nReq = MaxRounds /\ nInProg = MaxRounds - 1
  /\ rc = LDAP_SASL_BIND_IN_PROGRESS /\ ~SaslFailed(saslrc)

(***************************************************************************)
(* C20: every byte that sb_sasl_read calls have copied from the ready      *)
(* buffer into the caller's destination is counted in the return value of  *)
(* the call that copied it: between calls the bytes copied out are the     *)
(* bytes the return values reported, and a call that returned a value      *)
(* <= 0 took nothing from the ready buffer.                                *)
(***************************************************************************)
C20_NoSilentDrop ==
  rpc = "idle" =>
    /\ copied = delivered
    /\ rret <= 0 => bufptr = 0

(***************************************************************************)
(* C21: whenever the layer is installed on the stream, the context it      *)
(* hands to sasl_encode / sasl_decode is live: no sequence of binds,       *)
(* re-binds and bind failures leaves sb_sasl_read or sb_sasl_write with a  *)
(* context that ldap_pvt_sasl_bind has disposed.                           *)
(***************************************************************************)
C21_InstalledContextLive ==
  installed => (p_ctx \in 1..Len(ctxState) /\ ctxState[p_ctx] = 0)

(***************************************************************************)
(* C22: when ldap_pvt_sasl_bind returns success, the latest status the     *)
(* provider reported is SASL_OK, not SASL_CONTINUE, and no server          *)
(* credential blob is left that was not given to sasl_client_step, the     *)
(* one carried by the final success response included.                     *)
(***************************************************************************)
C22_SuccessMeansProviderDone ==
  BindReturned({"success"}) => (saslrc = SASL_OK /\ scred = 0)

(***************************************************************************)
(* C23: one transport read of sb_sasl_read takes at most 4 - buf_ptr       *)
(* bytes while the header is assembled and at most buf_end - buf_ptr       *)
(* bytes while the body is, and none outside the two loops; so at every    *)
(* sasl_decode the staging buffer holds exactly the frame (buf_ptr =       *)
(* buf_end >= 4) and the sb_sasl_drop_packet that follows leaves it empty  *)
(* (buf_ptr = buf_end = 0).                                                *)
(***************************************************************************)
C23_OnePacketStaged ==
  [][ /\ pos' - pos <= (IF rpc = "hdr" THEN PKT_HEADER - sec_buf_in.ptr
                        ELSE IF rpc = "body" THEN sec_buf_in.end - sec_buf_in.ptr
                        ELSE 0)
      /\ pos' >= pos
      /\ sec_buf_in'.ptr - sec_buf_in.ptr \in {pos' - pos, 0 - sec_buf_in.ptr}
      /\ lastDecode'.n # lastDecode.n =>
           /\ lastDecode'.n = lastDecode.n + 1
           /\ lastDecode'.ptr = lastDecode'.end
           /\ lastDecode'.end >= PKT_HEADER
           /\ lastDecode'.end = sec_buf_in.ptr + (pos' - pos)
           /\ sec_buf_in'.ptr = 0 /\ sec_buf_in'.end = 0 ]_vars

\* a packet was decoded that arrived in several transport reads
C23_Witness ==
  /\ lastDecode.n = 2 /\ lastDecode.res = "ok"
  /\ lastDecode.ptr = lastDecode.end /\ lastDecode.end > PKT_HEADER
  /\ sec_buf_in.ptr = 0 /\ sec_buf_in.end = 0
  /\ rpc = "idle" /\ pos = Len(wire) /\ ~faults

====
